---- MODULE Spec2Model ----
(***************************************************************************)
(* Model of student_code.py: SortableDigraph -> TraversableDigraph -> DAG. *)
(* A Python dict is a finite sequence of <<key, value>> pairs with         *)
(* distinct keys, kept in insertion order; overwriting a key keeps its     *)
(* position.  nodes is a dict name -> value, edges is a dict               *)
(* name -> (dict child -> weight).                                         *)
(***************************************************************************)
EXTENDS Integers, Sequences, FiniteSets, TLC

VARIABLES nodes, edges, cls, last, calls

vars == <<nodes, edges, cls, last, calls>>

\* ---------------------------------------------------------------- bounds
\* Longest sequence of mutating calls explored.
MaxCalls == 3

\* ------------------------------------------------------------ input sets
\* Node identifiers, listed in ascending (lexicographic) order.
IdSeq == <<"A", "B", "C", "D">>
Ids == {IdSeq[i] : i \in 1..Len(IdSeq)}
\* Identifiers of the calls that also vary the value or the weight.
ValuedIds == {"A", "B", "C"}
\* Python's None, the default of value= and edge_weight=.
None == "None"
Values == {None, "x"}
Weights == {None, "w"}

\* ---------------------------------------------------------- Python dicts
Has(d, k) == \E i \in 1..Len(d) : d[i][1] = k

Get(d, k) == d[CHOOSE i \in 1..Len(d) : d[i][1] = k][2]

\* d.get(k, {})
GetOrEmpty(d, k) == IF Has(d, k) THEN Get(d, k) ELSE <<>>

\* d[k] = v
Set(d, k, v) ==
    IF Has(d, k)
    THEN [i \in 1..Len(d) |-> IF d[i][1] = k THEN <<k, v>> ELSE d[i]]
    ELSE Append(d, <<k, v>>)

\* list(d.keys()), in insertion order
Keys(d) == [i \in 1..Len(d) |-> d[i][1]]

KeySet(d) == {d[i][1] : i \in 1..Len(d)}

\* sorted(S) for a collection of distinct identifiers
Rank(id) == CHOOSE i \in 1..Len(IdSeq) : IdSeq[i] = id

sorted(S) == SelectSeq(IdSeq, LAMBDA x : x \in S)

\* ------------------------------------------------------ SortableDigraph
\* A graph object: its two dict attributes.
Graph(N, E) == [nodes |-> N, edges |-> E]

\* add_node that re-creates the adjacency entry on every call
add_node_reset(g, name, value) ==
    Graph(Set(g.nodes, name, value), Set(g.edges, name, <<>>))

add_node(g, name, value) ==
    Graph(Set(g.nodes, name, value),
          IF ~Has(g.edges, name) THEN Set(g.edges, name, <<>>) ELSE g.edges)

add_edge(g, u, v, edge_weight) ==
    LET g1 == add_node(g, u, None)
        g2 == add_node(g1, v, None)
    IN  Graph(g2.nodes, Set(g2.edges, u, Set(Get(g2.edges, u), v, edge_weight)))

get_nodes(g) == Keys(g.nodes)

Ok(val) == [err |-> "none", val |-> val]
Raise(e) == [err |-> e, val |-> None]

get_node_value(g, name) ==
    IF ~Has(g.nodes, name) THEN Raise("KeyError") ELSE Ok(Get(g.nodes, name))

get_edge_weight(g, u, v) ==
    IF ~Has(g.edges, u) \/ ~Has(Get(g.edges, u), v)
    THEN Raise("KeyError")
    ELSE Ok(Get(Get(g.edges, u), v))

successors(g, name) ==
    IF ~Has(g.edges, name) THEN <<>> ELSE sorted(KeySet(Get(g.edges, name)))

\* predecessors that leaves out the node itself
predecessors_noself(g, name) ==
    sorted({g.edges[i][1] : i \in {j \in 1..Len(g.edges) :
                g.edges[j][1] # name /\ Has(g.edges[j][2], name)}})

predecessors(g, name) ==
    sorted({g.edges[i][1] : i \in {j \in 1..Len(g.edges) : Has(g.edges[j][2], name)}})

\* indegree[child] += 1 for every child of one parent, in dict order
RECURSIVE CountChildren(_, _, _)
CountChildren(children, j, indegree) ==
    IF j > Len(children) THEN indegree
    ELSE CountChildren(children, j + 1,
                       [indegree EXCEPT ![children[j][1]] = @ + 1])

\* for parent, children in self.edges.items()
RECURSIVE CountParents(_, _, _)
CountParents(E, i, indegree) ==
    IF i > Len(E) THEN indegree
    ELSE CountParents(E, i + 1, CountChildren(E[i][2], 1, indegree))

Indegree(g) == CountParents(g.edges, 1, [n \in KeySet(g.nodes) |-> 0])

\* the relaxation without the test for zero: every decrement enqueues
RECURSIVE RelaxChildren_always(_, _, _)
RelaxChildren_always(children, j, st) ==
    IF j > Len(children) THEN st
    ELSE LET child == children[j]
         IN  RelaxChildren_always(children, j + 1,
                 [indegree |-> [st.indegree EXCEPT ![child] = @ - 1],
                  queue |-> Append(st.queue, child)])

\* for child in sorted(children): decrement, enqueue on reaching zero
RECURSIVE RelaxChildren(_, _, _)
RelaxChildren(children, j, st) ==
    IF j > Len(children) THEN st
    ELSE LET child == children[j]
             d == st.indegree[child] - 1
         IN  RelaxChildren(children, j + 1,
                 [indegree |-> [st.indegree EXCEPT ![child] = d],
                  queue |-> IF d = 0 THEN Append(st.queue, child) ELSE st.queue])

\* while queue: popleft, append to order, relax the children
RECURSIVE KahnLoop(_, _, _, _)
KahnLoop(g, queue, order, indegree) ==
    IF queue = <<>> THEN order
    ELSE LET node == Head(queue)
             st == RelaxChildren(sorted(KeySet(GetOrEmpty(g.edges, node))), 1,
                                 [indegree |-> indegree, queue |-> Tail(queue)])
         IN  KahnLoop(g, st.queue, Append(order, node), st.indegree)

\* top_sort without the length test: a partial order is returned
top_sort_partial(g) ==
    LET indegree == Indegree(g)
        queue == sorted({n \in DOMAIN indegree : indegree[n] = 0})
    IN  [err |-> "none", val |-> KahnLoop(g, queue, <<>>, indegree)]

top_sort(g) ==
    LET indegree == Indegree(g)
        queue == sorted({n \in DOMAIN indegree : indegree[n] = 0})
        order == KahnLoop(g, queue, <<>>, indegree)
    IN  IF Len(order) # Len(g.nodes) THEN [err |-> "ValueError", val |-> <<>>]
        ELSE [err |-> "none", val |-> order]

\* --------------------------------------------------- TraversableDigraph
\* The closure state of dfs is st = [visited, order].
RECURSIVE _visit(_, _, _)
RECURSIVE VisitNbrs(_, _, _, _)
VisitNbrs(g, nbrs, j, st) ==
    IF j > Len(nbrs) THEN st
    ELSE LET nbr == nbrs[j]
         IN  IF nbr \notin st.visited
             THEN VisitNbrs(g, nbrs, j + 1,
                      _visit(g, nbr, [visited |-> st.visited \cup {nbr},
                                      order |-> Append(st.order, nbr)]))
             ELSE VisitNbrs(g, nbrs, j + 1, st)

\* _visit taking the children in dict order instead of sorted order
_visit_unsorted(g, node, st) ==
    VisitNbrs(g, Keys(GetOrEmpty(g.edges, node)), 1, st)

_visit(g, node, st) ==
    VisitNbrs(g, sorted(KeySet(GetOrEmpty(g.edges, node))), 1, st)

dfs(g, start) == _visit(g, start, [visited |-> {}, order |-> <<>>]).order

\* for nbr in sorted(children of node): enqueue the unvisited ones
RECURSIVE BfsEnqueue(_, _, _)
BfsEnqueue(nbrs, j, st) ==
    IF j > Len(nbrs) THEN st
    ELSE LET nbr == nbrs[j]
         IN  IF nbr \notin st.visited
             THEN BfsEnqueue(nbrs, j + 1,
                      [visited |-> st.visited \cup {nbr},
                       queue |-> Append(st.queue, nbr)])
             ELSE BfsEnqueue(nbrs, j + 1, st)

\* while queue: popleft, yield, enqueue; yielded collects the yields
RECURSIVE BfsLoop(_, _, _, _)
BfsLoop(g, queue, visited, yielded) ==
    IF queue = <<>> THEN yielded
    ELSE LET node == Head(queue)
             st == BfsEnqueue(sorted(KeySet(GetOrEmpty(g.edges, node))), 1,
                              [visited |-> visited, queue |-> Tail(queue)])
         IN  BfsLoop(g, st.queue, st.visited, Append(yielded, node))

\* The generator consumed to exhaustion: the sequence of yielded nodes.
bfs(g, start) ==
    LET first == sorted(KeySet(GetOrEmpty(g.edges, start)))
    IN  BfsLoop(g, first, {start} \cup KeySet(GetOrEmpty(g.edges, start)), <<>>)

\* ------------------------------------------------------------------ DAG
\* while stack: pop the last element, test it, push its children
RECURSIVE HasPathLoop(_, _, _, _)
HasPathLoop(g, stack, visited, goal) ==
    IF stack = <<>> THEN FALSE
    ELSE LET node == stack[Len(stack)]
             rest == SubSeq(stack, 1, Len(stack) - 1)
         IN  IF node = goal THEN TRUE
             ELSE IF node \notin visited
                  THEN HasPathLoop(g, rest \o Keys(GetOrEmpty(g.edges, node)),
                                   visited \cup {node}, goal)
                  ELSE HasPathLoop(g, rest, visited, goal)

\* _has_path with the start node marked visited from the beginning
_has_path_seeded(g, start, goal) == HasPathLoop(g, <<start>>, {start}, goal)

_has_path(g, start, goal) == HasPathLoop(g, <<start>>, {}, goal)

\* DAG.add_edge probing from u to v instead of from v to u
DAG_add_edge_swapped(g, u, v, edge_weight) ==
    LET g1 == add_node(g, u, None)
        g2 == add_node(g1, v, None)
    IN  IF _has_path(g2, u, v)
        THEN [g |-> g2, err |-> "ValueError"]
        ELSE [g |-> Graph(g2.nodes,
                          Set(g2.edges, u, Set(Get(g2.edges, u), v, edge_weight))),
              err |-> "none"]

\* Result of a mutating call: the graph it leaves and the error it raised.
DAG_add_edge(g, u, v, edge_weight) ==
    LET g1 == add_node(g, u, None)
        g2 == add_node(g1, v, None)
    IN  IF _has_path(g2, v, u)
        THEN [g |-> g2, err |-> "ValueError"]
        ELSE [g |-> Graph(g2.nodes,
                          Set(g2.edges, u, Set(Get(g2.edges, u), v, edge_weight))),
              err |-> "none"]

\* -------------------------------------------------------- state machine
\* The object under test.
G == Graph(nodes, edges)

Call(op, u, v, w, err) == [op |-> op, u |-> u, v |-> v, w |-> w, err |-> err]

Init ==
    /\ nodes = <<>>
    /\ edges = <<>>
    /\ cls \in {"TraversableDigraph", "DAG"}
    /\ last = Call("init", None, None, None, "none")
    /\ calls = 0

AddNode(name, value) ==
    /\ calls < MaxCalls
    /\ LET g == add_node(G, name, value)
       IN  nodes' = g.nodes /\ edges' = g.edges
    /\ last' = Call("add_node", name, name, value, "none")
    /\ calls' = calls + 1
    /\ UNCHANGED cls

\* add_edge on an instance that inherits SortableDigraph.add_edge
AddEdge(u, v, w) ==
    /\ calls < MaxCalls
    /\ cls = "TraversableDigraph"
    /\ LET g == add_edge(G, u, v, w)
       IN  nodes' = g.nodes /\ edges' = g.edges
    /\ last' = Call("add_edge", u, v, w, "none")
    /\ calls' = calls + 1
    /\ UNCHANGED cls

\* add_edge on a DAG instance (the override)
DagAddEdge(u, v, w) ==
    /\ calls < MaxCalls
    /\ cls = "DAG"
    /\ LET r == DAG_add_edge(G, u, v, w)
       IN  nodes' = r.g.nodes /\ edges' = r.g.edges
           /\ last' = Call("add_edge", u, v, w, r.err)
    /\ calls' = calls + 1
    /\ UNCHANGED cls

\* Calls with explicit values and weights, on an instance of either class.
Next ==
    \/ \E name \in ValuedIds, value \in Values : AddNode(name, value)
    \/ \E u \in ValuedIds, v \in ValuedIds, w \in Weights : AddEdge(u, v, w)
    \/ \E u \in ValuedIds, v \in ValuedIds, w \in Weights : DagAddEdge(u, v, w)

Spec == Init /\ [][Next]_vars

\* add_node(name) and add_edge(u, v) with the default arguments, over all
\* identifiers, on a DAG instance.
InitDAG == Init /\ cls = "DAG"

NextDAG ==
    \/ \E name \in Ids : AddNode(name, None)
    \/ \E u \in Ids, v \in Ids : DagAddEdge(u, v, None)

SpecDAG == InitDAG /\ [][NextDAG]_vars

\* The same calls on a TraversableDigraph instance (unguarded add_edge).
InitPlain == Init /\ cls = "TraversableDigraph"

NextPlain ==
    \/ \E name \in Ids : AddNode(name, None)
    \/ \E u \in Ids, v \in Ids : AddEdge(u, v, None)

SpecPlain == InitPlain /\ [][NextPlain]_vars

\* ------------------------------------------------- reference definitions
\* The graph after the step.
GNext == Graph(nodes', edges')

Range(s) == {s[i] : i \in 1..Len(s)}

NoDup(s) == \A i, j \in 1..Len(s) : i # j => s[i] # s[j]

\* The edge u -> v is stored.
Stored(g, u, v) == Has(g.edges, u) /\ Has(Get(g.edges, u), v)

EdgeRel(g) == {e \in Ids \X Ids : Stored(g, e[1], e[2])}

Succ(g, n) == {v \in Ids : Stored(g, n, v)}

RECURSIVE Closure(_, _)
Closure(g, S) ==
    LET T == S \cup UNION {Succ(g, n) : n \in S}
    IN  IF T = S THEN S ELSE Closure(g, T)

\* Nodes reachable from s by one or more edges / by zero or more edges.
Reach1(g, s) == Closure(g, Succ(g, s))
Reach0(g, s) == Closure(g, {s})

HasCycle(g) == \E n \in Ids : n \in Reach1(g, n)

Before(s, a, b) ==
    \E i, j \in 1..Len(s) : i < j /\ s[i] = a /\ s[j] = b

\* s lists every node exactly once, u before v for every edge u -> v.
IsTopOrder(g, s) ==
    /\ NoDup(s)
    /\ Range(s) = KeySet(g.nodes)
    /\ \A e \in EdgeRel(g) : Before(s, e[1], e[2])

MinId(S) == CHOOSE x \in S : \A y \in S : Rank(x) <= Rank(y)

MaxNat(S) == CHOOSE x \in S : \A y \in S : y <= x

\* o is the depth-first preorder of the nodes reached from s by one or more
\* edges, successors ascending: each element is the least successor not yet
\* listed of the latest of s, o[1], ..., o[i] that still has one, and the
\* list stops only when none has.
IsPreorderFrom(g, s, o) ==
    /\ NoDup(o)
    /\ \A i \in 0..Len(o) :
        LET listed == {o[k] : k \in 1..i}
            at(j) == IF j = 0 THEN s ELSE o[j]
            open == {j \in 0..i : Succ(g, at(j)) \ listed # {}}
        IN  IF i < Len(o)
            THEN open # {} /\ o[i + 1] = MinId(Succ(g, at(MaxNat(open))) \ listed)
            ELSE open = {}

Triangle == {<<"A", "B">>, <<"B", "C">>, <<"A", "C">>}

\* ---------------------------------------------------------------- claims
\* C1: on a DAG instance the stored edges never contain a closed walk of
\* length >= 1 (self-loops included), whatever calls were made.
C1_DagAcyclic == cls = "DAG" => ~HasCycle(G)

C1_Witness ==
    /\ cls = "DAG"
    /\ last.op = "add_edge" /\ last.err = "ValueError" /\ last.u # last.v
    /\ Cardinality(EdgeRel(G)) >= 2

\* C2: on a DAG instance, add_edge(u, v, w) with v already reaching u
\* (zero-length path included) raises the cycle error and leaves nodes and
\* edges exactly as they were.
C2_AtomicRefusal ==
    [][(cls = "DAG" /\ last'.op = "add_edge" /\ calls' # calls
        /\ last'.u \in Reach0(G, last'.v))
       => (last'.err = "ValueError" /\ nodes' = nodes /\ edges' = edges)]_vars

\* C3: on a DAG instance top_sort never raises and returns every node once,
\* u before v for every stored edge; on A->B, B->C, A->C it is [A, B, C].
C3_DagTopSort ==
    cls = "DAG" =>
        LET r == top_sort(G)
        IN  /\ r.err = "none"
            /\ IsTopOrder(G, r.val)
            /\ (EdgeRel(G) = Triangle /\ KeySet(nodes) = {"A", "B", "C"})
                 => r.val = <<"A", "B", "C">>

C3_Witness ==
    /\ cls = "DAG"
    /\ EdgeRel(G) = Triangle /\ KeySet(nodes) = {"A", "B", "C"}
    /\ top_sort(G).val = <<"A", "B", "C">>

\* C4: on an unguarded graph top_sort raises the cycle error exactly when
\* the graph has a directed cycle (a self-loop counts); otherwise it
\* returns a permutation of all nodes with u before v for every edge.
C4_TopSortOracle ==
    LET r == top_sort(G)
    IN  /\ r.err \in {"none", "ValueError"}
        /\ r.err = "ValueError" <=> HasCycle(G)
        /\ r.err = "none" => IsTopOrder(G, r.val)

C4_Witness ==
    /\ cls = "TraversableDigraph"
    /\ EdgeRel(G) = {<<"A", "B">>, <<"B", "C">>, <<"C", "A">>}
    /\ top_sort(G).err = "ValueError"

\* C5: for every graph and start, dfs(start) and bfs(start) hold the same
\* set of nodes, the set reachable from start, under one convention for
\* start itself (always counted, never counted, or counted when a
\* non-empty path returns to it).
C5_SameVisitedSet ==
    /\ \A s \in Ids : Range(dfs(G, s)) = Range(bfs(G, s))
    /\ \/ \A s \in Ids : Range(dfs(G, s)) = Reach0(G, s)
       \/ \A s \in Ids : Range(dfs(G, s)) = Reach0(G, s) \ {s}
       \/ \A s \in Ids : Range(dfs(G, s)) = Reach1(G, s)

C7_AddEdgeKeepsValues ==
    [][(last'.op = "add_edge" /\ last'.err = "none" /\ calls' # calls)
       => /\ \A n \in KeySet(nodes) :
                get_node_value(GNext, n) = get_node_value(G, n)
          /\ \A n \in KeySet(nodes') \ KeySet(nodes) :
                n \in {last'.u, last'.v} /\ get_node_value(GNext, n) = Ok(None)
          /\ \A a, b \in Ids :
                get_edge_weight(GNext, a, b) =
                    IF a = last'.u /\ b = last'.v THEN Ok(last'.w)
                    ELSE get_edge_weight(G, a, b)]_vars

\* C8: v is in successors(u) iff u is in predecessors(v), and both hold
\* exactly when the edge u -> v is stored, for identifiers present or not.
C8_SuccPredInverse ==
    \A u, v \in Ids :
        /\ v \in Range(successors(G, u)) <=> u \in Range(predecessors(G, v))
        /\ v \in Range(successors(G, u)) <=> Stored(G, u, v)

C8_Witness ==
    /\ predecessors(G, "C") = <<"A", "B", "C">>
    /\ successors(G, "C") = <<"C">>

\* C9: get_edge_weight(u, v) raises the not-found error until an add_edge
\* (u, v, w) succeeds, from then on returns the w of the latest successful
\* add_edge(u, v, w) (None included, without error), and is changed by no
\* add_node and by no add_edge on another pair or rejected.
C9_WeightRoundTrip ==
    /\ \A u, v \in Ids : get_edge_weight(G, u, v) = Raise("KeyError")
    /\ [][\A u, v \in Ids :
            get_edge_weight(GNext, u, v) =
                IF /\ last'.op = "add_edge" /\ last'.err = "none"
                   /\ last'.u = u /\ last'.v = v
                THEN Ok(last'.w)
                ELSE get_edge_weight(G, u, v)]_vars

C9_Witness ==
    /\ last.op = "add_edge" /\ last.err = "ValueError"
    /\ \E u, v \in Ids : get_edge_weight(G, u, v) = Ok("w")
    /\ \E u, v \in Ids : get_edge_weight(G, u, v) = Ok(None)

\* C10: on a DAG instance add_edge(u, v, w) raises the cycle error exactly
\* when u is reachable from v in zero or more stored edges, and otherwise
\* stores the edge with weight w; _has_path(s, g) is true exactly when g is
\* reachable from s in zero or more edges.
C10_GuardExact ==
    /\ [](\A s \in Ids :
            LET R == Reach0(G, s)
            IN  \A g \in Ids : _has_path(G, s, g) <=> g \in R)
    /\ [][(cls = "DAG" /\ last'.op = "add_edge" /\ calls' # calls) =>
            /\ last'.err = "ValueError" <=> last'.u \in Reach0(G, last'.v)
            /\ last'.err = "none" =>
                 get_edge_weight(GNext, last'.u, last'.v) = Ok(last'.w)]_vars

C10_Witness ==
    /\ cls = "DAG"
    /\ last.op = "add_edge" /\ last.err = "ValueError"
    /\ last.u # last.v /\ ~Stored(G, last.v, last.u)

====
